---- MODULE Spec2Model ----
(***************************************************************************)
(* Model of the ping monitor (backend/app/modules/ping_service.py), of the *)
(* WebSocket endpoints that register clients with it and answer their      *)
(* messages (backend/app/api/routers/websocket.py), of the summary query   *)
(* these messages ask for (backend/app/modules/crud.py) and of the         *)
(* application's startup and shutdown (backend/app/api/main.py).           *)
(*                                                                         *)
(* Every monitoring_loop task and every endpoint handler is an asyncio     *)
(* coroutine on one event loop: the code between two awaits runs           *)
(* atomically, so each action below is one such segment, from the await    *)
(* that resumes it to the await that suspends it next.                     *)
(***************************************************************************)
EXTENDS Integers, Sequences, FiniteSets, TLC

\* ------------------------------------------------------------------ bounds
MaxLoops   == 2   \* monitoring_loop tasks ever created by start_monitoring
MaxCycles  == 2   \* loop iterations ever started, over all loop tasks
MaxClients == 2   \* WebSocket objects ever handed to an endpoint
MaxRows    == 10  \* rows of ping_metrics a summary's window ever holds

Loops   == 1..MaxLoops
Clients == 1..MaxClients

\* The hosts of the model: two of the DNS set and one other host.
Hosts == {"8.8.8.8", "1.1.1.1", "google.com"}

\* __init__'s target list
DefaultTargets ==
    <<"8.8.8.8", "1.1.1.1", "208.67.222.222", "google.com", "github.com">>

\* __init__'s target list, restricted to the hosts of the model
InitialTargets == SelectSeq(DefaultTargets, LAMBDA h : h \in Hosts)

\* the literal list of broadcast_to_websockets
DNS_HOSTS == {"8.8.8.8", "1.1.1.1", "208.67.222.222"}

PING_STATUS_PATH == "/api/ws/ping-status"
DNS_STATUS_PATH  == "/api/ws/dns-status"
NoAttr == "<no attribute>"
None   == "None"

\* the local data of a broadcast_to_websockets that is not running
NoData == [type |-> None, results |-> <<>>]

\* What ping3.ping can hand back to ping_host: no answer (None), a latency
\* in ms, the error value False, or a raised exception.
PingReturns == {"None", "12.3456", "False", "raise"}

VARIABLES
    is_running,          \* PingMonitor.is_running
    target_hosts,        \* PingMonitor.target_hosts (list)
    latest_results,      \* PingMonitor.latest_results (dict host -> result)
    websocket_clients,   \* PingMonitor.websocket_clients (set)
    active_connections,  \* WebSocketManager.active_connections (dict id -> ws)
    connection_counter,  \* WebSocketManager.connection_counter
    pc,                  \* per loop task: where monitoring_loop is suspended
    tasks,               \* per loop task: hosts of the probes of ping_all_hosts
    results,             \* per loop task: local results of the cycle
    idx,                 \* per loop task: position of save_ping_results' for
    saved,               \* per loop task: hosts whose insert returned, this cycle
    data,                \* per loop task: local data of broadcast_to_websockets
    copy,                \* per loop task: websocket_clients.copy() being iterated
    todo,                \* per loop task: clients of copy still to be sent to
    delivered,           \* per loop task: clients whose send_json returned
    clients_to_remove,   \* per loop task: local clients_to_remove
    hpc,                 \* per WebSocket: where its endpoint handler is
    connection_id,       \* per WebSocket: the handler's connection_id, n for conn_n, 0 for None
    has_path,            \* whether the server's WebSocket objects have a path attribute
    response_time,       \* per loop task: what ping() did in each probe of the cycle
    timestamp,           \* per loop task: broadcast_data["timestamp"], as a logical time
    measured,            \* per loop task: result["timestamp"] of each result of the cycle
    message,             \* per WebSocket: the last message its endpoint received
    sends,               \* per WebSocket: the messages send_json was awaited with for it
    reply,               \* per WebSocket: the one of them whose send_json returned
    summary_call,        \* per WebSocket: the get_host_summary call made for it
    lifespan_pc,         \* where the application's lifespan is
    bpc,                 \* where the call of WebSocketManager.broadcast is
    registered,          \* active_connections as it was when broadcast was called
    item,                \* broadcast's connection_id, websocket: the item of its for loop
    sent_to,             \* the ids broadcast has awaited send_json for
    disconnected_connections, \* broadcast's local disconnected_connections
    cycles,              \* loop iterations started so far
    lastOp               \* the last step: a start or stop call and its branch, or another step

monitor  == <<is_running, target_hosts, latest_results, websocket_clients>>
manager  == <<active_connections, connection_counter>>
loopvars == <<pc, tasks, response_time, measured, results, idx, saved, timestamp, data,
              copy, todo, delivered, clients_to_remove, cycles>>
inbound  == <<message, sends, reply, summary_call>>
handlers == <<hpc, connection_id, inbound>>
broadcast_call == <<bpc, registered, item, sent_to, disconnected_connections>>
vars     == <<monitor, manager, loopvars, handlers, broadcast_call, has_path,
              lifespan_pc, lastOp>>

\* ------------------------------------------------------- pure functions

\* round(response_time, 2) on the values ping can return; False is the
\* number 0 to round().
Round2(number) ==
    CASE number = "12.3456" -> "12.35"
      [] number = "False"   -> "0"
      [] OTHER              -> number

\* ping_host as it would be if the timeout branch gave no error message
ping_host_silent(host, ret) ==
    IF ret \in {"raise", "None"}
    THEN [host |-> host, response_time_ms |-> None, packet_loss |-> TRUE,
          error_message |-> IF ret = "raise" THEN "str(e)" ELSE None]
    ELSE [host |-> host, response_time_ms |-> Round2(ret), packet_loss |-> FALSE,
          error_message |-> None]

\* ping_host(host): the result dict for what ping(host) did
ping_host(host, ret) ==
    IF ret = "raise"
    THEN [host |-> host, response_time_ms |-> None, packet_loss |-> TRUE,
          error_message |-> "str(e)"]
    ELSE IF ret = "None"
    THEN [host |-> host, response_time_ms |-> None, packet_loss |-> TRUE,
          error_message |-> "Ping timeout or host unreachable"]
    ELSE [host |-> host, response_time_ms |-> Round2(ret), packet_loss |-> FALSE,
          error_message |-> None]

\* Gather as it would be if a probe that raised were left out of the list
GatherCompleted(ts, rets) ==
    LET all == [i \in 1..Len(ts) |-> ping_host(ts[i], rets[i])]
    IN  SelectSeq(all, LAMBDA r : r.error_message # "str(e)")

\* asyncio.gather(*tasks): the i-th result is the i-th task's, whatever
\* the order the probes finished in
Gather(ts, rets) ==
    [i \in 1..Len(ts) |-> ping_host(ts[i], rets[i])]

\* dns_results as it would be without the filter condition
dns_results_unfiltered(rs) == rs

\* the list comprehension of broadcast_to_websockets
dns_results(rs) ==
    SelectSeq(rs, LAMBDA r : r.host \in DNS_HOSTS)

\* The classification of broadcast_to_websockets for the dict the loop
\* passes: the data that is sent and the is_dns_update flag.
Classify(d) ==
    IF d.type = "ping_update" /\ d.results # <<>> /\ dns_results(d.results) # <<>>
    THEN [data |-> [type |-> "dns_status_update", results |-> dns_results(d.results)],
          is_dns_update |-> TRUE]
    ELSE [data |-> d, is_dns_update |-> FALSE]

\* the route a WebSocket object reached
Endpoint(c) == IF c % 2 = 0 THEN DNS_STATUS_PATH ELSE PING_STATUS_PATH

\* The path attribute of a WebSocket object. The class of the object comes
\* from the server library: either its objects carry the path of the
\* route they reached, or they have no such attribute.
PathAttr(c) == IF has_path THEN Endpoint(c) ELSE NoAttr

\* getattr(client, 'path', '/api/ws/ping-status')
client_path(c) ==
    IF PathAttr(c) = NoAttr THEN PING_STATUS_PATH ELSE PathAttr(c)

\* SendsTo as it would be without the test of the client's path
SendsToEveryone(c, is_dns_update) == TRUE

\* The branch of the for loop of broadcast_to_websockets: whether
\* send_json is awaited for this client.
SendsTo(c, is_dns_update) ==
    \/ is_dns_update /\ client_path(c) = DNS_STATUS_PATH
    \/ ~is_dns_update /\ client_path(c) = PING_STATUS_PATH

\* the dict monitoring_loop hands to broadcast_to_websockets; its
\* timestamp is kept in the variable timestamp
broadcast_data(rs) == [type |-> "ping_update", results |-> rs]

\* datetime.isoformat(): the text of a time
IsoFormat(t) == ToString(t)

\* the larger of two numbers
Max(a, b) == IF a >= b THEN a ELSE b

\* the latest of the timestamps of a function of timestamps
RECURSIVE LatestUpTo(_, _)
LatestUpTo(ts, n) == IF n = 0 THEN 0 ELSE Max(ts[n], LatestUpTo(ts, n - 1))

\* the keys of a dict kept as a set of <<key, value>> pairs
Keys(d) == {kv[1] : kv \in d}

\* d[k] = v on such a dict
DictSet(d, k, v) == {kv \in d : kv[1] # k} \cup {<<k, v>>}

\* del d[k]
DictDel(d, k) == {kv \in d : kv[1] # k}

\* list.remove(x): the list without its first x
ListRemove(s, x) ==
    LET i == CHOOSE k \in 1..Len(s) : s[k] = x /\ \A j \in 1..(k - 1) : s[j] # x
    IN  SubSeq(s, 1, i - 1) \o SubSeq(s, i + 1, Len(s))

\* x in list
InList(s, x) == \E i \in 1..Len(s) : s[i] = x

\* the hosts of a list of results
HostsOf(rs) == [i \in 1..Len(rs) |-> rs[i].host]

\* ------------------------------ subscriber registries (websocket.py 36-46)

\* the two subscriber registries
Registries ==
    [active_connections |-> active_connections,
     websocket_clients  |-> websocket_clients,
     raised             |-> FALSE]

\* disconnect as it would be with `del` and `remove` on an id and a client
\* that may be absent
disconnect_unchecked(registries, id, websocket) ==
    IF id \in Keys(registries.active_connections)
          /\ websocket \in registries.websocket_clients
    THEN [active_connections |-> DictDel(registries.active_connections, id),
          websocket_clients  |-> registries.websocket_clients \ {websocket},
          raised             |-> FALSE]
    ELSE [registries EXCEPT !.raised = TRUE]

\* WebSocketManager.disconnect(connection_id, websocket): the id is deleted
\* when it is a key, and remove_websocket_client discards the client
disconnect(registries, id, websocket) ==
    [active_connections |-> IF id \in Keys(registries.active_connections)
                            THEN DictDel(registries.active_connections, id)
                            ELSE registries.active_connections,
     websocket_clients  |-> registries.websocket_clients \ {websocket},
     raised             |-> registries.raised]

\* ------------------------------------- inbound messages (websocket.py 116-295)

\* a numeric field that a message does not have
NoNumber == 0 - 1

\* What receive_text and json.loads hand to the endpoint: the exception of
\* a closed channel ("disconnect"), text that is not JSON ("undecodable"),
\* JSON that is not an object ("non_object"), or an object, of which the
\* handler reads the type, the host, the hours and the minutes (None or
\* NoNumber where the object has no such key).
Frame(type, host, hours, minutes) ==
    [type |-> type, host |-> host, hours |-> hours, minutes |-> minutes]

\* the local message of an endpoint that has received nothing
NoMessage == Frame("<nothing>", None, NoNumber, NoNumber)

\* the channel is closed: receive_text raises WebSocketDisconnect
Closed == Frame("disconnect", None, NoNumber, NoNumber)

\* the message types without parameters; "unknown" is a type the handler
\* has no branch for, None a message without a type
PlainTypes == {"undecodable", "non_object", "ping", "get_status",
               "get_latest_metrics", "unknown", None}

\* the values of a message's host: none, the empty string, a host
HostFields == {None, "", "8.8.8.8"}

\* what receive_text and json.loads can produce
Inbound ==
    {Closed}
      \cup {Frame(t, None, NoNumber, NoNumber) : t \in PlainTypes}
      \cup {Frame("subscribe_host", h, NoNumber, NoNumber) : h \in HostFields}
      \cup {Frame("get_host_summary", h, hr, mn) :
                h \in HostFields, hr \in {NoNumber, 0, 2}, mn \in {NoNumber, 0, 90}}

\* What the database does with a query: it fails, or the rows the query
\* selects number total_pings, packet_losses of them with packet_loss TRUE.
Table(raises, n, l) == [raises |-> raises, total_pings |-> n, packet_losses |-> l]

\* the tables of up to max rows, and the failing database
Tables(max) ==
    {Table(TRUE, 0, 0)}
      \cup {Table(FALSE, nl[1], nl[2]) :
                nl \in {p \in (0..max) \X (0..max) : p[2] <= p[1]}}

\* a float, kept as a fraction
Float(n, d) == [num |-> n, den |-> d]

\* a == b on floats
FloatEq(a, b) == a.num * b.den = b.num * a.den

\* k - a for the int k and the float a
IntMinusFloat(k, a) == Float(k * a.den - a.num, a.den)

\* round(n / d, 2), in hundredths
RoundHundredths(n, d) == (200 * n + d) \div (2 * d)

\* a call that raised
Raised == [raised |-> TRUE]

\* PingCRUD.get_host_summary(host, hours, minutes) against a database. The
\* window defaults to 24 hours; since_time is kept as the minutes it lies
\* before now, hours_analyzed in hundredths. The query's loss rate divides
\* by COUNT(*): with no row in the window the division fails and the
\* except raises it again, like any failure of the database. The row has
\* total_pings > 0, so uptime_percentage is 100 - packet_loss_rate.
get_host_summary(host, hours, minutes, db) ==
    LET h == IF hours = NoNumber /\ minutes = NoNumber THEN 24 ELSE hours
        since_time == IF minutes # NoNumber THEN minutes ELSE h * 60
    IN  IF db.raises \/ db.total_pings = 0
        THEN Raised
        ELSE [raised            |-> FALSE,
              host              |-> host,
              since_time        |-> since_time,
              hours_analyzed    |-> IF minutes # NoNumber
                                    THEN RoundHundredths(minutes, 60) ELSE h * 100,
              minutes_analyzed  |-> IF minutes # NoNumber THEN minutes ELSE h * 60,
              total_pings       |-> db.total_pings,
              packet_losses     |-> db.packet_losses,
              packet_loss_rate  |-> Float(db.packet_losses, db.total_pings),
              uptime_percentage |->
                  IntMinusFloat(100, Float(db.packet_losses, db.total_pings))]

\* `if host:`
Truthy(host) == host \notin {None, ""}

\* no call of get_host_summary
NoCall == [host |-> None, hours |-> NoNumber, minutes |-> NoNumber]

\* SummaryCall as it would be if only the hours were passed on
SummaryCall_hours_only(m) ==
    IF m.type = "get_host_summary" /\ Truthy(m.host)
    THEN [host |-> m.host, hours |-> m.hours, minutes |-> NoNumber]
    ELSE NoCall

\* The call of ping_crud.get_host_summary that handle_websocket_message
\* makes for a message: with the minutes alone when the message has
\* minutes, otherwise with its hours; none without a host.
SummaryCall(m) ==
    IF m.type = "get_host_summary" /\ Truthy(m.host)
    THEN IF m.minutes # NoNumber
         THEN [host |-> m.host, hours |-> NoNumber, minutes |-> m.minutes]
         ELSE [host |-> m.host, hours |-> m.hours, minutes |-> NoNumber]
    ELSE NoCall

\* dict.get(k, default)
DictGet(d, k, default) ==
    IF k \in Keys(d) THEN (CHOOSE kv \in d : kv[1] = k)[2] ELSE default

\* an error message
Error(text) == [type |-> "error", message |-> text]

\* no message
NoReply == [type |-> None]

\* the reply to a ping: its timestamp is what latest_results, a dict keyed
\* by host, holds under the key "timestamp", or "unknown"
Pong ==
    [type |-> "pong", timestamp |-> DictGet(latest_results, "timestamp", "unknown")]

\* handle_websocket_message(websocket, connection_id, message): the
\* messages it awaits send_json with, each one only when the send before
\* it raised. The branches that call ping_crud send their response inside
\* the try whose except sends the error.
handle_websocket_message(m, db) ==
    CASE m.type = "ping" -> <<Pong>>
      [] m.type = "get_status" ->
            <<[type |-> "status_response", monitoring_active |-> is_running,
               target_hosts |-> target_hosts, latest_results |-> latest_results]>>
      [] m.type = "get_latest_metrics" ->
            IF db.raises
            THEN <<Error("Failed to get latest metrics")>>
            ELSE <<[type |-> "latest_metrics_response",
                    metrics |-> IF db.total_pings > 0 THEN "rows" ELSE "{}"],
                   Error("Failed to get latest metrics")>>
      [] m.type = "subscribe_host" ->
            IF Truthy(m.host)
            THEN <<[type |-> "subscription_confirmed", host |-> m.host]>>
            ELSE <<Error("Host parameter required for subscription")>>
      [] m.type = "get_host_summary" ->
            IF Truthy(m.host)
            THEN LET call    == SummaryCall(m)
                     summary == get_host_summary(call.host, call.hours,
                                                 call.minutes, db)
                 IN  IF summary.raised
                     THEN <<Error("Failed to get host summary")>>
                     ELSE <<[type |-> "host_summary_response", host |-> m.host,
                             summary |-> summary],
                            Error("Failed to get host summary")>>
            ELSE <<Error("Host parameter required for summary")>>
      [] OTHER -> <<Error("Unknown message type: " \o m.type)>>

\* Attempts as it would be without the except for JSONDecodeError in the
\* loop: the error goes to the except around the loop, which sends nothing
Attempts_undecoded_ends(m, db) ==
    CASE m.type \in {"disconnect", "undecodable"} -> <<>>
      [] m.type = "non_object"  -> <<Error("Internal server error")>>
      [] OTHER -> handle_websocket_message(m, db) \o <<Error("Internal server error")>>

\* The messages one iteration of the endpoint's while loop awaits send_json
\* with, each one only when the send before it raised: none for a closed
\* channel; the error of the JSONDecodeError except; for a message without
\* a get method the error of the Exception except; otherwise those of
\* handle_websocket_message, and after them that error.
Attempts(m, db) ==
    CASE m.type = "disconnect"  -> <<>>
      [] m.type = "undecodable" -> <<Error("Invalid JSON format")>>
      [] m.type = "non_object"  -> <<Error("Internal server error")>>
      [] OTHER -> handle_websocket_message(m, db) \o <<Error("Internal server error")>>

\* Whether send_json can encode a message: the rows of the database hold
\* datetime values (timestamp, created_at, first_ping, last_ping), which
\* json.dumps raises TypeError for.
JsonOk(r) ==
    /\ r.type # "host_summary_response"
    /\ r.type = "latest_metrics_response" => r.metrics = "{}"

\* --------------------- objects of a status_response (ping_service.py 204-224)

\* The mutable objects of the monitor, named by the place that holds them:
\* its list of hosts, its dict of results, and the result dict the dict
\* holds for a host. The hosts themselves are strings, which cannot be
\* mutated.
TargetsObject == "target_hosts"
CacheObject   == "latest_results"
ResultObject(host) == "latest_results[" \o host \o "]"

\* the mutable objects reached from the monitor's registry and cache
MonitorObjects ==
    {TargetsObject, CacheObject} \cup {ResultObject(h) : h \in Keys(latest_results)}

\* list.copy() and dict.copy(): a new object
Copy(object) == "copy of " \o object

\* a list or dict object and the mutable objects it holds
Container(object, items) == [object |-> object, items |-> items]

\* the objects that can be mutated through a container
ObjectsOf(container) == {container.object} \cup container.items

\* get_latest_results as it would be if it returned the dict itself
get_latest_results_uncopied ==
    Container(CacheObject, {ResultObject(h) : h \in Keys(latest_results)})

\* get_target_hosts(): a copy of the list; it holds strings
get_target_hosts == Container(Copy(TargetsObject), {})

\* get_latest_results(): a copy of the dict. dict.copy() copies the dict
\* and not its values: the copy holds the result dicts of latest_results
get_latest_results ==
    Container(Copy(CacheObject), {ResultObject(h) : h \in Keys(latest_results)})

\* --------------------- WebSocketManager.broadcast (websocket.py 59-72)

\* no item: the for loop of broadcast has not started
NoItem == <<0, 0>>

\* Whether the iterator of active_connections.items() has an item after
\* the one with id `last`. A dict keeps its items in the order in which
\* they were inserted, which for active_connections is the order of the
\* ids, and its iterator goes on from the position it has reached.
HasNextItem(connections, last) == \E kv \in connections : kv[1] > last

\* that item
NextItem(connections, last) ==
    LET rest == {kv \in connections : kv[1] > last}
    IN  CHOOSE kv \in rest : \A other \in rest : kv[1] <= other[1]

\* Whether the iterator raises RuntimeError when it is asked for the item
\* after `last`: the dict has another size than the size `used` it had
\* when the iterator was created ("dictionary changed size during
\* iteration"); or, where the interpreter checks it, the iterator finds
\* an item after it has yielded `used` items ("dictionary keys changed
\* during iteration").
IteratorRaises(connections, used, last, yielded, keys_check) ==
    \/ Cardinality(connections) # used
    \/ keys_check /\ HasNextItem(connections, last) /\ yielded = used

\* the second for loop of broadcast: disconnect for every item of the list
RECURSIVE DisconnectAll(_, _)
DisconnectAll(registries, list) ==
    IF list = <<>>
    THEN registries
    ELSE DisconnectAll(disconnect(registries, list[1][1], list[1][2]), Tail(list))

\* ------------------------------------------------------------ initial state

\* PingMonitor.__init__ and WebSocketManager.__init__; no loop task and no
\* endpoint handler exists yet. What the WebSocket class of the server
\* library offers is fixed from the start, one way or the other.
Init ==
    /\ is_running = FALSE
    /\ target_hosts = InitialTargets
    /\ latest_results = {}
    /\ websocket_clients = {}
    /\ active_connections = {}
    /\ connection_counter = 0
    /\ pc = [l \in Loops |-> "none"]
    /\ tasks = [l \in Loops |-> <<>>]
    /\ results = [l \in Loops |-> <<>>]
    /\ idx = [l \in Loops |-> 0]
    /\ saved = [l \in Loops |-> <<>>]
    /\ data = [l \in Loops |-> NoData]
    /\ copy = [l \in Loops |-> {}]
    /\ todo = [l \in Loops |-> {}]
    /\ delivered = [l \in Loops |-> {}]
    /\ clients_to_remove = [l \in Loops |-> {}]
    /\ hpc = [c \in Clients |-> "new"]
    /\ connection_id = [c \in Clients |-> 0]
    /\ has_path \in BOOLEAN
    /\ response_time = [l \in Loops |-> <<>>]
    /\ timestamp = [l \in Loops |-> 0]
    /\ measured = [l \in Loops |-> <<>>]
    /\ message = [c \in Clients |-> NoMessage]
    /\ sends = [c \in Clients |-> <<>>]
    /\ reply = [c \in Clients |-> NoReply]
    /\ summary_call = [c \in Clients |-> NoCall]
    /\ lifespan_pc = "none"
    /\ bpc = "idle"
    /\ registered = {}
    /\ item = NoItem
    /\ sent_to = {}
    /\ disconnected_connections = <<>>
    /\ cycles = 0
    /\ lastOp = "init"

\* the initial state where the WebSocket objects carry their route's path
InitWithPath == Init /\ has_path

\* ------------------------------------------------- start / stop (lines 183-202)

\* the loop tasks that exist and have not returned
ActiveLoops == {l \in Loops : pc[l] \notin {"none", "done"}}

\* start_monitoring(), whoever calls it: the warning branch changes
\* nothing; otherwise the flag is set and asyncio.create_task creates a new
\* loop task, which runs from its first line when the event loop next
\* schedules it.
StartMonitoring ==
    IF is_running
    THEN /\ lastOp' = "start_warn"
         /\ UNCHANGED <<has_path, broadcast_call, monitor, manager, loopvars, handlers>>
    ELSE /\ \E l \in Loops :
              /\ pc[l] = "none"
              /\ \A k \in Loops : pc[k] = "none" => l <= k
              /\ pc' = [pc EXCEPT ![l] = "created"]
         /\ is_running' = TRUE
         /\ lastOp' = "start"
         /\ UNCHANGED <<has_path, broadcast_call, target_hosts, latest_results, websocket_clients,
                        manager, tasks, response_time, measured, results, idx,
                        saved, timestamp, data, copy, todo, delivered,
                        clients_to_remove, cycles, handlers>>

\* start_monitoring as it would be without the return after the warning
start_monitoring_unguarded ==
    /\ \E l \in Loops :
         /\ pc[l] = "none"
         /\ \A k \in Loops : pc[k] = "none" => l <= k
         /\ pc' = [pc EXCEPT ![l] = "created"]
    /\ is_running' = TRUE
    /\ lastOp' = IF is_running THEN "start_warn" ELSE "start"
    /\ UNCHANGED <<has_path, broadcast_call, lifespan_pc, target_hosts, latest_results,
                   websocket_clients, manager, tasks, response_time, measured,
                   results, idx, saved, timestamp, data, copy, todo, delivered,
                   clients_to_remove, cycles, handlers>>

\* a call of start_monitoring() from a request
start_monitoring == StartMonitoring /\ UNCHANGED lifespan_pc

\* stop_monitoring(), whoever calls it: the warning branch changes nothing;
\* otherwise only the flag is cleared.
StopMonitoring ==
    IF ~is_running
    THEN /\ lastOp' = "stop_warn"
         /\ UNCHANGED <<has_path, broadcast_call, monitor, manager, loopvars, handlers>>
    ELSE /\ is_running' = FALSE
         /\ lastOp' = "stop"
         /\ UNCHANGED <<has_path, broadcast_call, target_hosts, latest_results, websocket_clients,
                        manager, loopvars, handlers>>

\* a call of stop_monitoring() from a request
stop_monitoring == StopMonitoring /\ UNCHANGED lifespan_pc

\* ------------------------------------------- target registry (lines 208-224)

\* TargetsAdd as it would be without the test for a host that is present
TargetsAdd_unchecked(list, host) == Append(list, host)

\* add_target_host(host) on the list: the host is appended when it is not
\* in the list
TargetsAdd(list, host) ==
    IF InList(list, host) THEN list ELSE Append(list, host)

\* remove_target_host(host) on the list and the cache: a host of the list
\* is removed from it, and from the cache when it is a key of it
TargetsRemove(list, cache, host) ==
    IF InList(list, host)
    THEN [target_hosts   |-> ListRemove(list, host),
          latest_results |-> IF host \in Keys(cache)
                             THEN DictDel(cache, host) ELSE cache]
    ELSE [target_hosts |-> list, latest_results |-> cache]

\* add_target_host(host)
add_target_host(host) ==
    /\ target_hosts' = TargetsAdd(target_hosts, host)
    /\ lastOp' = "step"
    /\ UNCHANGED <<has_path, broadcast_call, lifespan_pc, is_running, latest_results,
                   websocket_clients, manager, loopvars, handlers>>

\* remove_target_host(host)
remove_target_host(host) ==
    /\ LET after == TargetsRemove(target_hosts, latest_results, host)
       IN  /\ target_hosts' = after.target_hosts
           /\ latest_results' = after.latest_results
    /\ lastOp' = "step"
    /\ UNCHANGED <<has_path, broadcast_call, lifespan_pc, is_running, websocket_clients, manager,
                   loopvars, handlers>>

\* ---------------------------------------------- monitoring loop (lines 38-181)

\* The hosts ping_all_hosts creates its probe tasks for: the list
\* comprehension runs over target_hosts without an await, before gather.
ProbeTargets == target_hosts

\* ProbedHosts as it would be if the probes read target_hosts when they end
ProbedHostsLive(l) == target_hosts

\* The hosts the awaited probes of loop task l were created for.
ProbedHosts(l) == tasks[l]

\* What datetime.utcnow() gave the probes of a cycle when each built its
\* result: the readings are numbered from the earliest of the cycle, and
\* two probes that read the same time have the same number.
ClockReadings(l) == [1..Len(ProbedHosts(l)) -> 1..Len(ProbedHosts(l))]

\* datetime.utcnow() where monitoring_loop builds broadcast_data, on the
\* numbering of the readings of the cycle's probes: gather has returned
\* and the inserts were awaited since the last probe read the clock, so
\* it is a later time than each of theirs
EnvelopeReading(l) == LatestUpTo(measured[l], Len(measured[l])) + 1

\* the readings of probes that end one after the other, in list order
ListOrder(l) == [i \in 1..Len(ProbedHosts(l)) |-> i]

\* datetime.utcnow() where monitoring_loop builds broadcast_data: a time
\* after that of every broadcast_data built before
UtcNow == LatestUpTo(timestamp, MaxLoops) + 1

\* broadcast_to_websockets(broadcast_data(rs)) up to the point where it
\* first suspends: the early return, the classification, the copy of the
\* client set, and the iterations of the for loop that await nothing. It
\* suspends in the first send_json; with no client to send to it runs to
\* its end, and the loop goes on to asyncio.sleep.
BroadcastBegin(l, rs) ==
    LET cl   == Classify(broadcast_data(rs))
        rcpt == {c \in websocket_clients : SendsTo(c, cl.is_dns_update)}
    IN  /\ timestamp' = [timestamp EXCEPT ![l] = UtcNow]
        /\ data' = [data EXCEPT ![l] = IF websocket_clients = {}
                                       THEN broadcast_data(rs) ELSE cl.data]
        /\ copy' = [copy EXCEPT ![l] = websocket_clients]
        /\ todo' = [todo EXCEPT ![l] = rcpt]
        /\ delivered' = [delivered EXCEPT ![l] = {}]
        /\ clients_to_remove' = [clients_to_remove EXCEPT ![l] = {}]
        /\ pc' = [pc EXCEPT ![l] = IF rcpt = {} THEN "sleep" ELSE "send"]

\* the locals of a loop task outside a cycle
ResetLocals(l) ==
    /\ response_time' = [response_time EXCEPT ![l] = <<>>]
    /\ measured' = [measured EXCEPT ![l] = <<>>]
    /\ results' = [results EXCEPT ![l] = <<>>]
    /\ idx' = [idx EXCEPT ![l] = 0]
    /\ saved' = [saved EXCEPT ![l] = <<>>]
    /\ timestamp' = [timestamp EXCEPT ![l] = 0]
    /\ data' = [data EXCEPT ![l] = NoData]
    /\ copy' = [copy EXCEPT ![l] = {}]
    /\ todo' = [todo EXCEPT ![l] = {}]
    /\ delivered' = [delivered EXCEPT ![l] = {}]
    /\ clients_to_remove' = [clients_to_remove EXCEPT ![l] = {}]

\* where a loop task is about to evaluate `while self.is_running`
AtWhile(l) == pc[l] \in {"created", "sleep", "errsleep"}

\* `while self.is_running` is false: monitoring_loop returns
loop_exit(l) ==
    /\ AtWhile(l)
    /\ ~is_running
    /\ pc' = [pc EXCEPT ![l] = "done"]
    /\ tasks' = [tasks EXCEPT ![l] = <<>>]
    /\ ResetLocals(l)
    /\ lastOp' = "step"
    /\ UNCHANGED <<has_path, broadcast_call, lifespan_pc, monitor, manager, handlers, cycles>>

\* loop_iterate as it would be under `while True`
loop_iterate_unchecked(l) ==
    /\ AtWhile(l)
    /\ cycles < MaxCycles
    /\ cycles' = cycles + 1
    /\ pc' = [pc EXCEPT ![l] = "probing"]
    /\ tasks' = [tasks EXCEPT ![l] = ProbeTargets]
    /\ ResetLocals(l)
    /\ lastOp' = "step"
    /\ UNCHANGED <<has_path, broadcast_call, lifespan_pc, monitor, manager, handlers>>

\* `while self.is_running` is true: ping_all_hosts creates one probe per
\* host of target_hosts and awaits gather
loop_iterate(l) ==
    /\ AtWhile(l)
    /\ is_running
    /\ cycles < MaxCycles
    /\ cycles' = cycles + 1
    /\ pc' = [pc EXCEPT ![l] = "probing"]
    /\ tasks' = [tasks EXCEPT ![l] = ProbeTargets]
    /\ ResetLocals(l)
    /\ lastOp' = "step"
    /\ UNCHANGED <<has_path, broadcast_call, lifespan_pc, monitor, manager, handlers>>

\* gather returns: every probe has returned what ping_host made of its
\* ping, with the reading of the clock it took then. save_ping_results
\* starts and suspends in its first insert; with
\* nothing to save the loop goes straight on to the broadcast.
probes_done(l, rets, times) ==
    /\ pc[l] = "probing"
    /\ LET rs == Gather(ProbedHosts(l), rets)
       IN  /\ response_time' = [response_time EXCEPT ![l] = rets]
           /\ measured' = [measured EXCEPT ![l] = times]
           /\ results' = [results EXCEPT ![l] = rs]
           /\ saved' = [saved EXCEPT ![l] = <<>>]
           /\ IF rs = <<>>
              THEN /\ BroadcastBegin(l, rs)
                   /\ idx' = idx
              ELSE /\ pc' = [pc EXCEPT ![l] = "insert"]
                   /\ idx' = [idx EXCEPT ![l] = 1]
                   /\ UNCHANGED <<timestamp, data, copy, todo, delivered,
                                  clients_to_remove>>
    /\ lastOp' = "step"
    /\ UNCHANGED <<has_path, broadcast_call, lifespan_pc,
                   monitor, manager, handlers, tasks, cycles>>

\* cycle_error as it would be without the try/except inside the while
cycle_error_uncaught(l) ==
    /\ pc[l] = "probing"
    /\ pc' = [pc EXCEPT ![l] = "done"]
    /\ lastOp' = "step"
    /\ UNCHANGED <<has_path, broadcast_call, lifespan_pc, monitor, manager, handlers, tasks,
                   response_time, measured,
                   results, idx, saved, timestamp, data, copy, todo, delivered,
                   clients_to_remove, cycles>>

\* cycle_error as it would be if the except cleared is_running
cycle_error_stops(l) ==
    /\ pc[l] = "probing"
    /\ pc' = [pc EXCEPT ![l] = "errsleep"]
    /\ is_running' = FALSE
    /\ lastOp' = "step"
    /\ UNCHANGED <<has_path, broadcast_call, lifespan_pc,
                   target_hosts, latest_results, websocket_clients,
                   manager, handlers, tasks, response_time, measured, results, idx, saved,
                   timestamp, data, copy, todo, delivered, clients_to_remove,
                   cycles>>

\* an exception out of ping_all_hosts (run_in_executor or gather raising):
\* the except of monitoring_loop logs it and sleeps
cycle_error(l) ==
    /\ pc[l] = "probing"
    /\ pc' = [pc EXCEPT ![l] = "errsleep"]
    /\ lastOp' = "step"
    /\ UNCHANGED <<has_path, broadcast_call, lifespan_pc, monitor, manager, handlers, tasks,
                   response_time, measured,
                   results, idx, saved, timestamp, data, copy, todo, delivered,
                   clients_to_remove, cycles>>

\* insert_done as it would be with the result stored in latest_results
\* before its insert is awaited
insert_done_caches_first(l, ok) ==
    /\ pc[l] = "insert"
    /\ LET r == results[l][idx[l]]
       IN  /\ latest_results' = DictSet(latest_results, r.host, r)
           /\ IF ok
              THEN /\ saved' = [saved EXCEPT ![l] = Append(@, r.host)]
                   /\ IF idx[l] < Len(results[l])
                      THEN /\ idx' = [idx EXCEPT ![l] = @ + 1]
                           /\ UNCHANGED <<pc, timestamp, data, copy, todo, delivered,
                                          clients_to_remove>>
                      ELSE /\ BroadcastBegin(l, results[l])
                           /\ idx' = idx
              ELSE /\ BroadcastBegin(l, results[l])
                   /\ UNCHANGED <<saved, idx>>
    /\ lastOp' = "step"
    /\ UNCHANGED <<has_path, broadcast_call, lifespan_pc,
                   is_running, target_hosts, websocket_clients,
                   manager, handlers, tasks, response_time, measured, results, cycles>>

\* insert_ping_metric returns or raises for results[idx]. When it returns,
\* the result is stored in latest_results and the for loop goes to the
\* next result; when it raises, the except around the for loop ends
\* save_ping_results. After save_ping_results the broadcast begins.
insert_done(l, ok) ==
    /\ pc[l] = "insert"
    /\ LET r == results[l][idx[l]]
       IN  IF ok
           THEN /\ latest_results' = DictSet(latest_results, r.host, r)
                /\ saved' = [saved EXCEPT ![l] = Append(@, r.host)]
                /\ IF idx[l] < Len(results[l])
                   THEN /\ idx' = [idx EXCEPT ![l] = @ + 1]
                        /\ UNCHANGED <<pc, timestamp, data, copy, todo, delivered,
                                       clients_to_remove>>
                   ELSE /\ BroadcastBegin(l, results[l])
                        /\ idx' = idx
           ELSE /\ BroadcastBegin(l, results[l])
                /\ UNCHANGED <<latest_results, saved, idx>>
    /\ lastOp' = "step"
    /\ UNCHANGED <<has_path, broadcast_call, lifespan_pc,
                   is_running, target_hosts, websocket_clients, manager,
                   handlers, tasks, response_time, measured, results, cycles>>

\* send_done as it would be without the discard of the failed clients
send_done_keeps_failed(l, c, ok) ==
    /\ pc[l] = "send"
    /\ c \in todo[l]
    /\ todo' = [todo EXCEPT ![l] = @ \ {c}]
    /\ delivered' = [delivered EXCEPT ![l] = IF ok THEN @ \cup {c} ELSE @]
    /\ clients_to_remove' = [clients_to_remove EXCEPT ![l] = IF ok THEN @ ELSE @ \cup {c}]
    /\ IF todo[l] = {c}
       THEN pc' = [pc EXCEPT ![l] = "sleep"]
       ELSE pc' = pc
    /\ lastOp' = "step"
    /\ UNCHANGED <<has_path, broadcast_call, lifespan_pc, monitor, manager, handlers, tasks,
                   response_time, measured,
                   results, idx, saved, timestamp, data, copy, cycles>>

\* send_done as it would be with the try/except around the for loop: the
\* first send that raises ends the iteration
send_done_aborts(l, c, ok) ==
    /\ pc[l] = "send"
    /\ c \in todo[l]
    /\ todo' = [todo EXCEPT ![l] = IF ok THEN @ \ {c} ELSE {}]
    /\ delivered' = [delivered EXCEPT ![l] = IF ok THEN @ \cup {c} ELSE @]
    /\ clients_to_remove' = [clients_to_remove EXCEPT ![l] = IF ok THEN @ ELSE @ \cup {c}]
    /\ IF todo'[l] = {}
       THEN /\ websocket_clients' = websocket_clients \ clients_to_remove'[l]
            /\ pc' = [pc EXCEPT ![l] = "sleep"]
       ELSE UNCHANGED <<websocket_clients, pc>>
    /\ lastOp' = "step"
    /\ UNCHANGED <<has_path, broadcast_call, lifespan_pc,
                   is_running, target_hosts, latest_results, manager,
                   handlers, tasks, response_time, measured, results, idx, saved, timestamp,
                   data, copy, cycles>>

\* send_done as it would be if a send that raised were tried again
send_done_retries(l, c, ok) ==
    /\ pc[l] = "send"
    /\ c \in todo[l]
    /\ todo' = [todo EXCEPT ![l] = IF ok THEN @ \ {c} ELSE @]
    /\ delivered' = [delivered EXCEPT ![l] = IF ok THEN @ \cup {c} ELSE @]
    /\ clients_to_remove' = [clients_to_remove EXCEPT ![l] = IF ok THEN @ ELSE @ \cup {c}]
    /\ IF todo'[l] = {}
       THEN /\ websocket_clients' = websocket_clients \ clients_to_remove'[l]
            /\ pc' = [pc EXCEPT ![l] = "sleep"]
       ELSE UNCHANGED <<websocket_clients, pc>>
    /\ lastOp' = "step"
    /\ UNCHANGED <<has_path, broadcast_call, lifespan_pc,
                   is_running, target_hosts, latest_results, manager,
                   handlers, tasks, response_time, measured, results, idx, saved, timestamp,
                   data, copy, cycles>>

\* send_done as it would be if the for loop ran over websocket_clients
\* itself and not over its copy
send_done_live(l, c, ok) ==
    /\ pc[l] = "send"
    /\ c \in todo[l]
    /\ delivered' = [delivered EXCEPT ![l] = IF ok THEN @ \cup {c} ELSE @]
    /\ clients_to_remove' = [clients_to_remove EXCEPT ![l] = IF ok THEN @ ELSE @ \cup {c}]
    /\ copy' = [copy EXCEPT ![l] = @ \cup websocket_clients]
    /\ todo' = [todo EXCEPT ![l] =
                   {d \in copy'[l] : SendsTo(d, data[l].type = "dns_status_update")}
                       \ (delivered'[l] \cup clients_to_remove'[l])]
    /\ IF todo'[l] = {}
       THEN /\ websocket_clients' = websocket_clients \ clients_to_remove'[l]
            /\ pc' = [pc EXCEPT ![l] = "sleep"]
       ELSE UNCHANGED <<websocket_clients, pc>>
    /\ lastOp' = "step"
    /\ UNCHANGED <<has_path, broadcast_call, lifespan_pc,
                   is_running, target_hosts, latest_results, manager,
                   handlers, tasks, response_time, measured, results, idx, saved, timestamp,
                   data, cycles>>

\* client.send_json(data) returns or raises for one client of the copy.
\* After the last client the failed ones are discarded and
\* broadcast_to_websockets returns; the loop goes on to asyncio.sleep.
send_done(l, c, ok) ==
    /\ pc[l] = "send"
    /\ c \in todo[l]
    /\ todo' = [todo EXCEPT ![l] = @ \ {c}]
    /\ delivered' = [delivered EXCEPT ![l] = IF ok THEN @ \cup {c} ELSE @]
    /\ clients_to_remove' = [clients_to_remove EXCEPT ![l] = IF ok THEN @ ELSE @ \cup {c}]
    /\ IF todo[l] = {c}
       THEN /\ websocket_clients' = websocket_clients \ clients_to_remove'[l]
            /\ pc' = [pc EXCEPT ![l] = "sleep"]
       ELSE UNCHANGED <<websocket_clients, pc>>
    /\ lastOp' = "step"
    /\ UNCHANGED <<has_path, broadcast_call, lifespan_pc,
                   is_running, target_hosts, latest_results, manager,
                   handlers, tasks, response_time, measured, results, idx, saved, timestamp,
                   data, copy, cycles>>

\* ----------------------------------------- endpoint handlers (websocket.py)

\* Disconnect as it would be without the call of remove_websocket_client
Disconnect_manager_only(c) ==
    IF connection_id[c] = 0
    THEN UNCHANGED <<active_connections, websocket_clients>>
    ELSE /\ active_connections' = DictDel(active_connections, connection_id[c])
         /\ UNCHANGED websocket_clients

\* WebSocketManager.disconnect(connection_id, websocket), as the finally
\* of an endpoint runs it: nothing when connect never returned an id
Disconnect(c) ==
    IF connection_id[c] = 0
    THEN UNCHANGED <<active_connections, websocket_clients>>
    ELSE LET after == disconnect(Registries, connection_id[c], c)
         IN  /\ active_connections' = after.active_connections
             /\ websocket_clients' = after.websocket_clients

\* connect as it would be with the id taken from the number of the
\* connections that are registered
connect_numbers_by_size(c, ok) ==
    /\ hpc[c] = "new"
    /\ IF ok
       THEN /\ connection_counter' = connection_counter + 1
            /\ connection_id' = [connection_id EXCEPT
                                     ![c] = Cardinality(active_connections) + 1]
            /\ active_connections' =
                   DictSet(active_connections, connection_id'[c], c)
            /\ websocket_clients' = websocket_clients \cup {c}
            /\ hpc' = [hpc EXCEPT ![c] = "hello"]
       ELSE /\ hpc' = [hpc EXCEPT ![c] = "closed"]
            /\ UNCHANGED <<connection_counter, connection_id, active_connections,
                           websocket_clients>>
    /\ lastOp' = "step"
    /\ UNCHANGED <<has_path, broadcast_call, lifespan_pc, is_running, target_hosts, latest_results,
                   loopvars, inbound>>

\* WebSocketManager.connect: accept returns or raises; when it returns the
\* connection is counted, registered with both registries, and the
\* endpoint suspends sending connection_established.
connect(c, ok) ==
    /\ hpc[c] = "new"
    /\ IF ok
       THEN /\ connection_counter' = connection_counter + 1
            /\ connection_id' = [connection_id EXCEPT ![c] = connection_counter']
            /\ active_connections' =
                   DictSet(active_connections, connection_counter', c)
            /\ websocket_clients' = websocket_clients \cup {c}
            /\ hpc' = [hpc EXCEPT ![c] = "hello"]
       ELSE /\ hpc' = [hpc EXCEPT ![c] = "closed"]
            /\ UNCHANGED <<connection_counter, connection_id, active_connections,
                           websocket_clients>>
    /\ lastOp' = "step"
    /\ UNCHANGED <<has_path, broadcast_call, lifespan_pc, is_running, target_hosts, latest_results,
                   loopvars, inbound>>

\* whether the endpoint has an initial message after connection_established:
\* initial_data when latest_results is not empty (ping-status), hosts_update
\* when target_hosts is not empty (dns-status)
HasInitialMessage(c) ==
    IF Endpoint(c) = PING_STATUS_PATH THEN latest_results # {} ELSE target_hosts # <<>>

\* a send of the endpoint's setup returns or raises; a raise ends the
\* endpoint through its finally
setup_send(c, ok) ==
    /\ hpc[c] \in {"hello", "initial"}
    /\ IF ok
       THEN /\ hpc' = [hpc EXCEPT ![c] = IF hpc[c] = "hello" /\ HasInitialMessage(c)
                                         THEN "initial" ELSE "recv"]
            /\ UNCHANGED <<active_connections, websocket_clients>>
       ELSE /\ hpc' = [hpc EXCEPT ![c] = "closed"]
            /\ Disconnect(c)
    /\ lastOp' = "step"
    /\ UNCHANGED <<has_path, broadcast_call, lifespan_pc, is_running, target_hosts, latest_results,
                   connection_counter, connection_id, loopvars, inbound>>

\* receive as it would be if the endpoint returned after an error reply
receive_strict(c, m, db, tried, ok) ==
    /\ hpc[c] = "recv"
    /\ LET att  == Attempts(m, db)
           sent == ok /\ att[tried].type # "error"
       IN  /\ tried \in 0..Len(att)
           /\ (tried = 0) <=> (att = <<>>)
           /\ ok => tried > 0 /\ JsonOk(att[tried])
           /\ ~ok /\ tried > 0 => tried >= Len(att) - 1
           /\ IF m = Closed
              THEN UNCHANGED inbound
              ELSE /\ message' = [message EXCEPT ![c] = m]
                   /\ sends' = [sends EXCEPT ![c] = SubSeq(att, 1, tried)]
                   /\ reply' = [reply EXCEPT ![c] =
                                    IF ok THEN att[tried] ELSE NoReply]
                   /\ summary_call' = [summary_call EXCEPT ![c] = SummaryCall(m)]
           /\ IF sent
              THEN UNCHANGED <<hpc, active_connections, websocket_clients>>
              ELSE /\ hpc' = [hpc EXCEPT ![c] = "closed"]
                   /\ Disconnect(c)
    /\ lastOp' = "step"
    /\ UNCHANGED <<has_path, broadcast_call, lifespan_pc, is_running, target_hosts, latest_results,
                   connection_counter, connection_id, loopvars>>

\* receive as it would be if subscribe_host added the client to the
\* monitor's clients again
receive_resubscribes(c, m, db, tried, ok) ==
    /\ hpc[c] = "recv"
    /\ LET att == Attempts(m, db)
       IN  /\ tried \in 0..Len(att)
           /\ (tried = 0) <=> (att = <<>>)
           /\ ok => tried > 0 /\ JsonOk(att[tried])
           /\ ~ok /\ tried > 0 => tried >= Len(att) - 1
           /\ IF m = Closed
              THEN UNCHANGED inbound
              ELSE /\ message' = [message EXCEPT ![c] = m]
                   /\ sends' = [sends EXCEPT ![c] = SubSeq(att, 1, tried)]
                   /\ reply' = [reply EXCEPT ![c] =
                                    IF ok THEN att[tried] ELSE NoReply]
                   /\ summary_call' = [summary_call EXCEPT ![c] = SummaryCall(m)]
           /\ IF ok
              THEN /\ websocket_clients' =
                          IF m.type = "subscribe_host"
                          THEN websocket_clients \cup {c} ELSE websocket_clients
                   /\ UNCHANGED <<hpc, active_connections>>
              ELSE /\ hpc' = [hpc EXCEPT ![c] = "closed"]
                   /\ Disconnect(c)
    /\ lastOp' = "step"
    /\ UNCHANGED <<has_path, broadcast_call, lifespan_pc, is_running, target_hosts, latest_results,
                   connection_counter, connection_id, loopvars>>

\* One iteration of the endpoint's while loop: receive_text and json.loads
\* produce m, and the messages of Attempts(m, db) are sent one after the
\* other until a send_json returns. The first `tried` of them are awaited:
\* the last of these returns (ok) or raises, the ones before it raised. A
\* send that returns takes the loop back to receive_text. A raise ends the
\* endpoint when it comes out of an except of the loop (no attempt is
\* left), or when it is the WebSocketDisconnect of the last send of
\* handle_websocket_message, which breaks out of the loop. A closed
\* channel produces no message and nothing is sent. Leaving the endpoint
\* runs its finally.
receive(c, m, db, tried, ok) ==
    /\ hpc[c] = "recv"
    /\ LET att == Attempts(m, db)
       IN  /\ tried \in 0..Len(att)
           /\ (tried = 0) <=> (att = <<>>)
           /\ ok => tried > 0 /\ JsonOk(att[tried])
           /\ ~ok /\ tried > 0 => tried >= Len(att) - 1
           /\ IF m = Closed
              THEN UNCHANGED inbound
              ELSE /\ message' = [message EXCEPT ![c] = m]
                   /\ sends' = [sends EXCEPT ![c] = SubSeq(att, 1, tried)]
                   /\ reply' = [reply EXCEPT ![c] =
                                    IF ok THEN att[tried] ELSE NoReply]
                   /\ summary_call' = [summary_call EXCEPT ![c] = SummaryCall(m)]
           /\ IF ok
              THEN UNCHANGED <<hpc, active_connections, websocket_clients>>
              ELSE /\ hpc' = [hpc EXCEPT ![c] = "closed"]
                   /\ Disconnect(c)
    /\ lastOp' = "step"
    /\ UNCHANGED <<has_path, broadcast_call, lifespan_pc, is_running, target_hosts, latest_results,
                   connection_counter, connection_id, loopvars>>

\* ------------------------------ WebSocketManager.broadcast (lines 59-72)

\* The for statement of broadcast asks the iterator for the item after
\* `last`, with `failed` the list of the connections whose send has
\* raised so far. The iterator raises, and the error leaves broadcast, as
\* the for statement is outside the try; or it yields an item, and
\* broadcast suspends in send_json for it; or it is exhausted, and
\* broadcast disconnects the connections of the list and returns.
ForNext(last, failed, keys_check) ==
    /\ disconnected_connections' = failed
    /\ IF IteratorRaises(active_connections, Cardinality(registered'), last,
                         Cardinality(sent_to), keys_check)
       THEN /\ bpc' = "raised"
            /\ UNCHANGED <<item, sent_to, active_connections, websocket_clients>>
       ELSE IF HasNextItem(active_connections, last)
       THEN /\ bpc' = "send"
            /\ item' = NextItem(active_connections, last)
            /\ sent_to' = sent_to \cup {item'[1]}
            /\ UNCHANGED <<active_connections, websocket_clients>>
       ELSE LET after == DisconnectAll(Registries, failed)
            IN  /\ bpc' = "returned"
                /\ active_connections' = after.active_connections
                /\ websocket_clients' = after.websocket_clients
                /\ UNCHANGED <<item, sent_to>>

\* WebSocketManager.broadcast(message) is called: the list is empty, the
\* iterator of active_connections.items() is created, and broadcast
\* suspends in the send_json of the first item; with no connection it
\* returns.
manager_broadcast ==
    /\ bpc \in {"idle", "returned", "raised"}
    /\ registered' = active_connections
    /\ IF active_connections = {}
       THEN /\ bpc' = "returned"
            /\ item' = NoItem
            /\ sent_to' = {}
            /\ disconnected_connections' = <<>>
       ELSE /\ bpc' = "send"
            /\ item' = NextItem(active_connections, 0)
            /\ sent_to' = {item'[1]}
            /\ disconnected_connections' = <<>>
    /\ lastOp' = "step"
    /\ UNCHANGED <<has_path, lifespan_pc, monitor, manager, loopvars, handlers>>

\* websocket.send_json(message) returns or raises for the item of the for
\* loop; a raise appends the item to the list. Then the for statement
\* asks for the next item.
manager_send_done(ok, keys_check) ==
    /\ bpc = "send"
    /\ registered' = registered
    /\ ForNext(item[1],
               IF ok THEN disconnected_connections
               ELSE Append(disconnected_connections, item),
               keys_check)
    /\ lastOp' = "step"
    /\ UNCHANGED <<has_path, lifespan_pc, is_running, target_hosts, latest_results,
                   connection_counter, loopvars, handlers>>

\* ------------------------------------------------- lifespan (main.py 26-68)

\* lifespan_startup as it would be with start_monitoring() called before
\* db_manager.connect()
lifespan_startup_starts_first(ok) ==
    /\ lifespan_pc = "none"
    /\ StartMonitoring
    /\ lifespan_pc' = IF ok THEN "yield" ELSE "raised"

\* The startup of the lifespan: db_manager.connect() returns or raises.
\* When it returns, start_monitoring() is called, which awaits nothing,
\* and the lifespan yields to the server. A raise is logged and raised
\* again: the lifespan ends there.
lifespan_startup(ok) ==
    /\ lifespan_pc = "none"
    /\ IF ok
       THEN /\ StartMonitoring
            /\ lifespan_pc' = "yield"
       ELSE /\ lifespan_pc' = "raised"
            /\ lastOp' = "step"
            /\ UNCHANGED <<has_path, broadcast_call, monitor, manager, loopvars, handlers>>

\* The shutdown of the lifespan: stop_monitoring() is called, then the
\* pool is closed; an error of either is logged only.
lifespan_shutdown ==
    /\ lifespan_pc = "yield"
    /\ StopMonitoring
    /\ lifespan_pc' = "closed"

\* ------------------------------------------------------------ specification

\* every operation of the monitor, the loop tasks and the endpoints
Next ==
    \/ start_monitoring
    \/ stop_monitoring
    \/ \E h \in Hosts : add_target_host(h)
    \/ \E h \in Hosts : remove_target_host(h)
    \/ \E l \in Loops : loop_exit(l)
    \/ \E l \in Loops : loop_iterate(l)
    \/ \E l \in Loops : \E rets \in [1..Len(ProbedHosts(l)) -> PingReturns] :
           \E times \in ClockReadings(l) : probes_done(l, rets, times)
    \/ \E l \in Loops : cycle_error(l)
    \/ \E l \in Loops : \E ok \in BOOLEAN : insert_done(l, ok)
    \/ \E l \in Loops : \E c \in Clients : \E ok \in BOOLEAN : send_done(l, c, ok)
    \/ \E c \in Clients : \E ok \in BOOLEAN : connect(c, ok)
    \/ \E c \in Clients : \E ok \in BOOLEAN : setup_send(c, ok)
    \/ \E c \in Clients : \E m \in Inbound : \E db \in Tables(MaxRows) :
           \E tried \in 0..3 : \E ok \in BOOLEAN : receive(c, m, db, tried, ok)
    \/ \E ok \in BOOLEAN : lifespan_startup(ok)
    \/ lifespan_shutdown
    \/ manager_broadcast
    \/ \E ok \in BOOLEAN : \E keys_check \in BOOLEAN : manager_send_done(ok, keys_check)

Spec == Init /\ [][Next]_vars

\* The scheduler: start and stop calls against the loop tasks and one
\* subscriber of the dns-status endpoint that carries its path, with a
\* fixed target list, probes that time out and inserts that return.
NextScheduler ==
    \/ start_monitoring
    \/ stop_monitoring
    \/ \E l \in Loops : loop_exit(l)
    \/ \E l \in Loops : loop_iterate(l)
    \/ \E l \in Loops : \E rets \in [1..Len(ProbedHosts(l)) -> {"None"}] :
           probes_done(l, rets, ListOrder(l))
    \/ \E l \in Loops : insert_done(l, TRUE)
    \/ \E l \in Loops : \E c \in Clients : \E ok \in BOOLEAN : send_done(l, c, ok)
    \/ connect(2, TRUE)

SpecScheduler == InitWithPath /\ [][NextScheduler]_vars

\* the steps of loop task l in that scenario
LoopStep(l) ==
    \/ loop_exit(l)
    \/ loop_iterate(l)
    \/ \E rets \in [1..Len(ProbedHosts(l)) -> {"None"}] :
           probes_done(l, rets, ListOrder(l))
    \/ insert_done(l, TRUE)
    \/ \E c \in Clients : \E ok \in BOOLEAN : send_done(l, c, ok)

\* The event loop runs every task that is ready, and every await of a
\* loop task ends: each probe has a timeout, an insert returns, a send
\* returns or raises, a sleep lasts ping_interval seconds.
SpecSchedulerFair == SpecScheduler /\ \A l \in Loops : WF_vars(LoopStep(l))

\* Every kind of operation at once: start and stop calls, the loop tasks,
\* one subscriber of the dns-status endpoint that carries its path, and
\* one host that is added and removed.
NextSystem ==
    \/ start_monitoring
    \/ stop_monitoring
    \/ add_target_host("google.com")
    \/ remove_target_host("google.com")
    \/ \E l \in Loops : loop_exit(l)
    \/ \E l \in Loops : loop_iterate(l)
    \/ \E l \in Loops : \E rets \in [1..Len(ProbedHosts(l)) -> {"None"}] :
           probes_done(l, rets, ListOrder(l))
    \/ \E l \in Loops : cycle_error(l)
    \/ \E l \in Loops : insert_done(l, TRUE)
    \/ \E l \in Loops : \E c \in Clients : \E ok \in BOOLEAN : send_done(l, c, ok)
    \/ \E ok \in BOOLEAN : connect(2, ok)
    \/ \E ok \in BOOLEAN : setup_send(2, ok)
    \/ receive(2, Closed, Table(FALSE, 0, 0), 0, FALSE)

SpecSystem == InitWithPath /\ [][NextSystem]_vars

\* The target registry against the cycles of one loop task.
NextRegistry ==
    \/ start_monitoring
    \/ \E h \in {"1.1.1.1", "google.com"} : add_target_host(h)
    \/ \E h \in {"1.1.1.1", "google.com"} : remove_target_host(h)
    \/ \E l \in Loops : loop_iterate(l)
    \/ \E l \in Loops : \E rets \in [1..Len(ProbedHosts(l)) -> PingReturns] :
           probes_done(l, rets, ListOrder(l))
    \/ \E l \in Loops : \E ok \in BOOLEAN : insert_done(l, ok)

SpecRegistry == InitWithPath /\ [][NextRegistry]_vars

\* The broadcast of one loop task against the endpoints' subscribers.
NextBroadcast ==
    \/ start_monitoring
    \/ \E h \in Hosts \cap DNS_HOSTS : remove_target_host(h)
    \/ \E l \in Loops : loop_iterate(l)
    \/ \E l \in Loops : \E rets \in [1..Len(ProbedHosts(l)) -> {"12.3456"}] :
           probes_done(l, rets, ListOrder(l))
    \/ \E l \in Loops : insert_done(l, TRUE)
    \/ \E l \in Loops : \E c \in Clients : \E ok \in BOOLEAN : send_done(l, c, ok)
    \/ \E c \in Clients : \E ok \in BOOLEAN : connect(c, ok)
    \/ \E c \in Clients : \E ok \in BOOLEAN : setup_send(c, ok)
    \/ \E c \in Clients : receive(c, Closed, Table(FALSE, 0, 0), 0, FALSE)

SpecBroadcast == Init /\ [][NextBroadcast]_vars

\* The cycles of one loop task with a fixed target list: every outcome of
\* the probes and of the inserts.
NextPersistence ==
    \/ start_monitoring
    \/ \E l \in Loops : loop_iterate(l)
    \/ \E l \in Loops : \E rets \in [1..Len(ProbedHosts(l)) -> PingReturns] :
           probes_done(l, rets, ListOrder(l))
    \/ \E l \in Loops : \E ok \in BOOLEAN : insert_done(l, ok)

SpecPersistence == InitWithPath /\ [][NextPersistence]_vars

\* Start and stop calls against the loop tasks and the subscribers of both
\* endpoints, with the hosts of the DNS set being removed, probes that
\* time out and inserts that return.
NextOrdering ==
    \/ start_monitoring
    \/ stop_monitoring
    \/ \E h \in Hosts \cap DNS_HOSTS : remove_target_host(h)
    \/ \E l \in Loops : loop_exit(l)
    \/ \E l \in Loops : loop_iterate(l)
    \/ \E l \in Loops : \E rets \in [1..Len(ProbedHosts(l)) -> {"None"}] :
           probes_done(l, rets, ListOrder(l))
    \/ \E l \in Loops : insert_done(l, TRUE)
    \/ \E l \in Loops : \E c \in Clients : \E ok \in BOOLEAN : send_done(l, c, ok)
    \/ \E c \in Clients : connect(c, TRUE)

SpecOrdering == Init /\ [][NextOrdering]_vars

\* the outcomes of the database that a message can meet: only the branches
\* that call ping_crud depend on it
TablesFor(m, max) ==
    IF m.type \in {"get_latest_metrics", "get_host_summary"}
    THEN Tables(max) ELSE {Table(FALSE, 0, 0)}

\* The inbound messages of one subscriber of the dns-status endpoint
\* against the cycles of one loop task: every message, every outcome of
\* its sends, and a database that fails or holds at most one row.
NextCommands ==
    \/ start_monitoring
    \/ \E l \in Loops : loop_iterate(l)
    \/ \E l \in Loops : \E rets \in [1..Len(ProbedHosts(l)) -> {"12.3456"}] :
           probes_done(l, rets, ListOrder(l))
    \/ \E l \in Loops : insert_done(l, TRUE)
    \/ \E l \in Loops : \E ok \in BOOLEAN : send_done(l, 2, ok)
    \/ connect(2, TRUE)
    \/ setup_send(2, TRUE)
    \/ \E m \in Inbound : \E db \in TablesFor(m, 1) :
           \E tried \in 0..Len(Attempts(m, db)) : \E ok \in BOOLEAN :
               receive(2, m, db, tried, ok)

SpecCommands == InitWithPath /\ [][NextCommands]_vars

\* the get_host_summary messages
SummaryRequests == {m \in Inbound : m.type = "get_host_summary"}

\* the message that asks for the summary of a host over the default window
DefaultSummaryRequest == Frame("get_host_summary", "8.8.8.8", NoNumber, NoNumber)

\* The get_host_summary messages of one subscriber against the database:
\* every combination of host, hours and minutes with a database that
\* fails or holds at most one row in the window, the request for the
\* default window with every table of up to MaxRows rows, and every
\* outcome of the sends.
NextSummary ==
    \/ connect(1, TRUE)
    \/ setup_send(1, TRUE)
    \/ \E m \in SummaryRequests :
           \E db \in Tables(IF m = DefaultSummaryRequest THEN MaxRows ELSE 1) :
               \E tried \in 0..Len(Attempts(m, db)) : \E ok \in BOOLEAN :
                   receive(1, m, db, tried, ok)

SpecSummary == InitWithPath /\ [][NextSummary]_vars

\* The application from its startup to its shutdown: the lifespan, the
\* start and stop requests, which are served only between the lifespan's
\* yield and its shutdown, and the loop tasks, with probes that time out.
NextStartup ==
    \/ \E ok \in BOOLEAN : lifespan_startup(ok)
    \/ lifespan_shutdown
    \/ lifespan_pc = "yield" /\ start_monitoring
    \/ lifespan_pc = "yield" /\ stop_monitoring
    \/ \E l \in Loops : loop_exit(l)
    \/ \E l \in Loops : loop_iterate(l)
    \/ \E l \in Loops : \E rets \in [1..Len(ProbedHosts(l)) -> {"None"}] :
           probes_done(l, rets, ListOrder(l))
    \/ \E l \in Loops : \E ok \in BOOLEAN : insert_done(l, ok)

SpecStartup == InitWithPath /\ [][NextStartup]_vars

\* The cycles of one loop task with the clock: probes that time out or
\* answer, in every order of their clock readings, inserts that return or
\* raise, and one subscriber.
NextTimestamps ==
    \/ start_monitoring
    \/ \E l \in Loops : loop_iterate(l)
    \/ \E l \in Loops : \E rets \in [1..Len(ProbedHosts(l)) -> {"None", "12.3456"}] :
           \E times \in ClockReadings(l) : probes_done(l, rets, times)
    \/ \E l \in Loops : \E ok \in BOOLEAN : insert_done(l, ok)
    \/ \E l \in Loops : \E ok \in BOOLEAN : send_done(l, 2, ok)
    \/ connect(2, TRUE)

SpecTimestamps == InitWithPath /\ [][NextTimestamps]_vars

\* the messages that end an endpoint or keep it, one of each kind: the
\* closed channel, a command, a text that is not JSON, and a command that
\* calls ping_crud
ChannelMessages ==
    {Closed} \cup {Frame(t, None, NoNumber, NoNumber) :
                      t \in {"ping", "undecodable", "get_latest_metrics"}}

\* the two channels of that scenario, one of each endpoint
ChannelClients == {1, 2}

\* The channels of both endpoints from accept to the end of their handler,
\* against the broadcasts of one loop task: every outcome of accept, of
\* the sends of the setup, of the sends of a reply and of the sends of a
\* broadcast, and a database that fails or is empty.
NextChannels ==
    \/ start_monitoring
    \/ \E l \in Loops : loop_iterate(l)
    \/ \E l \in Loops : \E rets \in [1..Len(ProbedHosts(l)) -> {"None"}] :
           probes_done(l, rets, ListOrder(l))
    \/ \E l \in Loops : insert_done(l, TRUE)
    \/ \E l \in Loops : \E c \in ChannelClients : \E ok \in BOOLEAN : send_done(l, c, ok)
    \/ \E c \in ChannelClients : \E ok \in BOOLEAN : connect(c, ok)
    \/ \E c \in ChannelClients : \E ok \in BOOLEAN : setup_send(c, ok)
    \/ \E c \in ChannelClients : \E m \in ChannelMessages :
           \E db \in TablesFor(m, 0) :
               \E tried \in 0..Len(Attempts(m, db)) : \E ok \in BOOLEAN :
                   receive(c, m, db, tried, ok)

SpecChannels == Init /\ [][NextChannels]_vars

\* Calls of WebSocketManager.broadcast against the channels of both
\* endpoints, which connect, are set up and are closed meanwhile: every
\* outcome of accept, of the sends of the setup and of the sends of
\* broadcast, under an interpreter that checks the keys of a dict during
\* its iteration and under one that checks its size only.
NextManagerBroadcast ==
    \/ manager_broadcast
    \/ \E ok \in BOOLEAN : \E keys_check \in BOOLEAN : manager_send_done(ok, keys_check)
    \/ \E c \in Clients : \E ok \in BOOLEAN : connect(c, ok)
    \/ \E c \in Clients : \E ok \in BOOLEAN : setup_send(c, ok)
    \/ \E c \in Clients : receive(c, Closed, Table(FALSE, 0, 0), 0, FALSE)

SpecManagerBroadcast == Init /\ [][NextManagerBroadcast]_vars

\* ------------------------------------------------------------------ claims

\* the reserved DNS-resolver set of the specification
ReservedDnsSet == {"8.8.8.8", "1.1.1.1", "208.67.222.222"}

\* the topic of a subscriber: what the broadcast reads from its path
Topic(c) == IF client_path(c) = DNS_STATUS_PATH THEN "dns-only" ELSE "full"

\* a loop task inside a cycle: between its snapshot and its sleep
InCycle(l) == pc[l] \in {"probing", "insert", "send"}

\* the cycle of loop task l probed a host of the reserved set
CycleHasDns(l) == \E i \in 1..Len(results[l]) : results[l][i].host \in ReservedDnsSet

\* d holds elements of rs, in the order they have in rs
IsOrderedSelection(d, rs) ==
    \E f \in [1..Len(d) -> 1..Len(rs)] :
        /\ \A i, j \in 1..Len(d) : i < j => f[i] < f[j]
        /\ \A i \in 1..Len(d) : d[i] = rs[f[i]]

\* C1: when a cycle that probed a host of the DNS set has broadcast, every
\* full subscriber of the broadcast got the ping_update envelope with all
\* measurements of the cycle, unless its send failed, and every dns-only
\* subscriber got the derived envelope, unless its send failed.
C1_DnsCycleFanOut ==
    \A l \in Loops :
        (pc[l] = "sleep" /\ CycleHasDns(l)) =>
            \A c \in copy[l] :
                /\ Topic(c) = "full" =>
                       \/ c \in clients_to_remove[l]
                       \/ c \in delivered[l] /\ data[l] = broadcast_data(results[l])
                /\ Topic(c) = "dns-only" =>
                       \/ c \in clients_to_remove[l]
                       \/ c \in delivered[l] /\ data[l].type = "dns_status_update"

IteratingLoops == {l \in Loops : pc[l] \in {"probing", "insert", "send", "sleep", "errsleep"}}

\* what start and stop calls leave alone in their warning branch
program == <<monitor, manager, loopvars, handlers>>

\* C4: at most one monitoring loop is in a cycle or sleeping between two
\* cycles, whatever start and stop calls were made.
C4_SingleActiveLoop == Cardinality(IteratingLoops) <= 1

C6_LoopSurvivesErrors ==
    [][ \A l \in Loops :
          /\ pc[l] # "done" /\ pc'[l] = "done" => ~is_running
          /\ InCycle(l) => pc'[l] # "done"
          /\ pc[l] # "errsleep" /\ pc'[l] = "errsleep" =>
                 InCycle(l) /\ is_running' = is_running
          /\ pc[l] = "errsleep" /\ pc'[l] # "errsleep" =>
                 pc'[l] = (IF is_running THEN "probing" ELSE "done") ]_vars

\* an error was caught in a cycle: the task sleeps, and the state is Running
C6_Witness ==
    \E l \in Loops : pc[l] = "errsleep" /\ is_running

\* the elements of a list
Range(s) == {s[i] : i \in 1..Len(s)}

\* C7: a stop call leaves every loop task where it is; a task inside a
\* cycle does not return from there; a task at its while test in state
\* Stopped starts no cycle; a cycle that is probing in state Stopped goes
\* on to save every result, store it in latest_results and finish its
\* broadcast; and a task that is in a cycle in state Stopped returns
\* eventually; the last two unless start is called again.
C7_StopLetsCycleFinish ==
    /\ [][ \A l \in Loops :
             /\ lastOp' = "stop" => UNCHANGED loopvars
             /\ InCycle(l) => pc'[l] \in {"probing", "insert", "send", "sleep"}
             /\ AtWhile(l) /\ ~is_running => pc'[l] \in {pc[l], "done"} ]_vars
    /\ \A l \in Loops :
           ((~is_running /\ pc[l] = "probing") ~>
                \/ is_running
                \/ /\ pc[l] = "sleep"
                   /\ saved[l] = tasks[l]
                   /\ Range(tasks[l]) \subseteq Keys(latest_results)
                   /\ todo[l] = {})
    /\ \A l \in Loops :
           ((~is_running /\ InCycle(l)) ~> (is_running \/ pc[l] = "done"))

\* stop was called while a cycle was in flight, and the cycle went on to
\* its second insert
C7_Witness ==
    \E l \in Loops : ~is_running /\ pc[l] = "insert" /\ idx[l] = 2

\* C8: is_running changes only in a start call made in state Stopped and in
\* a stop call made in state Running; a start call in state Running and a
\* stop call in state Stopped change nothing.
C8_StateChangesOnlyByStartStop ==
    [][ /\ is_running' # is_running => lastOp' \in {"start", "stop"}
        /\ lastOp' = "start" => ~is_running /\ is_running'
        /\ lastOp' = "stop" => is_running /\ ~is_running'
        /\ lastOp' = "start_warn" => is_running /\ UNCHANGED program
        /\ lastOp' = "stop_warn" => ~is_running /\ UNCHANGED program ]_vars

\* stop was called in state Stopped after the monitor had run
C8_Witness ==
    /\ lastOp = "stop_warn"
    /\ ~is_running
    /\ \E l \in Loops : pc[l] # "none"

\* C9: the results of a cycle are as many as the hosts of its snapshot, and
\* the i-th result is for the i-th host.
C9_ResultsAlignWithSnapshot ==
    \A l \in Loops :
        pc[l] \in {"insert", "send", "sleep"} =>
            /\ Len(results[l]) = Len(tasks[l])
            /\ \A i \in 1..Len(tasks[l]) : results[l][i].host = tasks[l][i]

\* a cycle of three probes with different outcomes, whose snapshot is no
\* longer the target list
C9_Witness ==
    \E l \in Loops :
        /\ pc[l] = "insert"
        /\ Len(results[l]) = 3
        /\ results[l][1].error_message = "str(e)"
        /\ results[l][2].response_time_ms = "0"
        /\ results[l][3].error_message = "Ping timeout or host unreachable"
        /\ tasks[l] # target_hosts

\* s is the beginning of t
IsPrefix(s, t) == Len(s) <= Len(t) /\ \A i \in 1..Len(s) : s[i] = t[i]

\* C10: the snapshot of a cycle is the target list at the cycle's start and
\* does not change during the cycle; the hosts whose results are saved and
\* broadcast are the snapshot's, whatever add and remove calls are made
\* meanwhile.
C10_CycleUsesItsSnapshot ==
    [][ \A l \in Loops :
          /\ pc[l] # "probing" /\ pc'[l] = "probing" => tasks'[l] = target_hosts
          /\ InCycle(l) => tasks'[l] = tasks[l]
          /\ pc'[l] \in {"insert", "send", "sleep"} =>
                 /\ HostsOf(results'[l]) = tasks'[l]
                 /\ IsPrefix(saved'[l], tasks'[l])
                 /\ data'[l].type = "ping_update" =>
                        HostsOf(data'[l].results) = tasks'[l]
                 /\ data'[l].type = "dns_status_update" =>
                        HostsOf(data'[l].results) =
                            SelectSeq(tasks'[l], LAMBDA h : h \in ReservedDnsSet) ]_vars

\* a cycle whose snapshot already reflects an earlier call is saving its
\* results while the target list has changed again
C10_Witness ==
    \E l \in Loops :
        /\ pc[l] = "insert"
        /\ tasks[l] # InitialTargets
        /\ tasks[l] # target_hosts

\* C11: every host that has an entry in latest_results is in target_hosts:
\* once remove_target_host has returned, no cycle that was in flight
\* writes an entry for the removed host.
C11_CacheKeysAreTargets == Keys(latest_results) \subseteq Range(target_hosts)

\* what ping() did was to return a measured latency
IsLatency(ret) == ret \notin {"None", "False", "raise"}

\* C12: ping_host returns a result for every probe, whatever ping() did,
\* and for every outcome of ping() that is not a measured latency (no
\* value, the error value False, a raised exception) the result has
\* packet_loss true and an error message.
C12_FailedProbeIsUnreachable ==
    \A l \in Loops :
        pc[l] \in {"insert", "send", "sleep"} =>
            /\ Len(results[l]) = Len(response_time[l])
            /\ \A i \in 1..Len(results[l]) :
                   ~IsLatency(response_time[l][i]) =>
                       /\ results[l][i].packet_loss
                       /\ results[l][i].error_message # None

\* the two implications between the fields of one result
IsConsistent(r) ==
    /\ r.packet_loss => r.error_message # None
    /\ ~r.packet_loss => r.response_time_ms # None

\* C13: every result a cycle holds, every entry of latest_results and
\* every result of a broadcast dict has an error message when packet_loss
\* is true and a response time when packet_loss is false.
C13_ResultFieldsConsistent ==
    /\ \A kv \in latest_results : IsConsistent(kv[2])
    /\ \A l \in Loops :
           /\ \A i \in 1..Len(results[l]) : IsConsistent(results[l][i])
           /\ \A i \in 1..Len(data[l].results) : IsConsistent(data[l].results[i])

\* latest_results holds a result of each kind: a timeout, a raised
\* exception and a returned value, and a cycle has built its broadcast dict
C13_Witness ==
    /\ \E kv \in latest_results : kv[2].error_message = "Ping timeout or host unreachable"
    /\ \E kv \in latest_results : kv[2].error_message = "str(e)"
    /\ \E kv \in latest_results : ~kv[2].packet_loss
    /\ \E l \in Loops : pc[l] = "sleep" /\ Len(data[l].results) = 3

\* C14: when save_ping_results is over and the cycle has gone on to its
\* broadcast, the insert was attempted for every result of the cycle,
\* whether or not an insert failed.
C14_EveryInsertAttempted ==
    \A l \in Loops :
        pc[l] \in {"send", "sleep"} => idx[l] = Len(results[l])

\* C15: at the end of a cycle, latest_results maps each host of the cycle
\* to the cycle's result for it, whether or not an insert failed (the
\* target list is fixed here, so no host was removed meanwhile).
C15_CacheHoldsCycleResults ==
    \A l \in Loops :
        pc[l] = "sleep" =>
            \A i \in 1..Len(results[l]) :
                <<results[l][i].host, results[l][i]>> \in latest_results

\* the clients a loop task's broadcast has called send_json for, and the
\* call is over
Attempted(l) == delivered[l] \cup clients_to_remove[l]

\* a registered client whose handler is still running, and that is no
\* longer in websocket_clients: a broadcast discarded it after a failed send
Dropped(c) == hpc[c] \in {"hello", "initial", "recv"} /\ c \notin websocket_clients

\* C16: a broadcast in which sends failed ends in the loop's sleep and not
\* in its except, and at its end the clients whose send failed are out of
\* websocket_clients; and while a client stays dropped, the only broadcast
\* whose copy holds it is the one in which its send failed: no send to it
\* is pending anywhere.
C16_FailedSubscriberDropped ==
    /\ [][ \A l \in Loops :
             pc[l] = "send" /\ pc'[l] # "send" =>
                 /\ pc'[l] = "sleep"
                 /\ clients_to_remove'[l] \cap websocket_clients' = {} ]_vars
    /\ [](\A c \in Clients : Dropped(c) =>
             \A l \in Loops :
                 /\ c \notin todo[l]
                 /\ c \in copy[l] => c \in clients_to_remove[l])

\* a client was dropped after a failed send, and the broadcast of the
\* second cycle has delivered to the other client without it
C16_Witness ==
    \E l \in Loops : \E c \in Clients :
        /\ Dropped(c)
        /\ cycles = 2
        /\ pc[l] = "sleep"
        /\ c \notin copy[l]
        /\ delivered[l] # {}

\* the clients of a broadcast's copy whose topic matches the dict the
\* broadcast sends
Matching(l) ==
    {c \in copy[l] : (Topic(c) = "dns-only") = (data[l].type = "dns_status_update")}

\* C17: while a broadcast is sending, the matching clients of its copy
\* that it has not called send_json for are all still to be sent to,
\* whichever sends failed before and in whatever order the clients come;
\* and when the broadcast is over it has called send_json for every
\* matching client of its copy.
C17_FailureSkipsNoOne ==
    \A l \in Loops :
        /\ pc[l] = "send" => todo[l] = Matching(l) \ Attempted(l)
        /\ pc[l] = "send" => todo[l] # {}
        /\ pc[l] = "sleep" /\ copy[l] # {} => Matching(l) \subseteq Attempted(l)

\* a broadcast to two clients is over: the send to one of them failed, the
\* other one got the dict
C17_Witness ==
    \E l \in Loops : \E c, d \in copy[l] :
        /\ pc[l] = "sleep"
        /\ c \in clients_to_remove[l]
        /\ d \in delivered[l]

\* the broadcast dicts that monitoring_loop's cycle of loop task l gives
\* rise to: the one it builds and the one derived from it
EnvelopesOfCycle(l) ==
    {broadcast_data(results[l]),
     [type |-> "dns_status_update",
      results |-> SelectSeq(results[l], LAMBDA r : r.host \in ReservedDnsSet)]}

\* C18: in a broadcast no client is still to be sent to after send_json was
\* called for it, no client is both delivered to and failed, and what is
\* sent is a dict of the cycle the broadcast belongs to; every step that
\* calls send_json does so for one client the broadcast had not called it
\* for, and a client enters the clients to be sent to only when a
\* broadcast starts.
C18_AtMostOnce ==
    /\ [](\A l \in Loops :
             /\ todo[l] \cap Attempted(l) = {}
             /\ delivered[l] \cap clients_to_remove[l] = {}
             /\ todo[l] \cup Attempted(l) \subseteq copy[l]
             /\ pc[l] = "send" => data[l] \in EnvelopesOfCycle(l))
    /\ [][ \A l \in Loops :
             /\ pc[l] = "send" /\ Attempted(l)' # Attempted(l) =>
                    \E c \in todo[l] \ Attempted(l) :
                        /\ Attempted(l)' = Attempted(l) \cup {c}
                        /\ todo'[l] = todo[l] \ {c}
             /\ ~(todo'[l] \subseteq todo[l]) => pc[l] # "send" /\ pc'[l] = "send" ]_vars

\* two cycles have run; in the second one each of two clients got its one
\* send
C18_Witness ==
    \E l \in Loops :
        /\ cycles = 2
        /\ pc[l] = "sleep"
        /\ Cardinality(delivered[l]) = 2

\* C19 as claimed: while a broadcast is sending, websocket_clients holds no
\* client that it did not hold when the broadcast started.
C19_RegistryFixedInBroadcast ==
    \A l \in Loops : pc[l] = "send" => websocket_clients \subseteq copy[l]

\* C19 as amended: the clients a broadcast sends to are those of
\* websocket_clients when it starts; while it is sending, its copy does
\* not change, no client is added to those still to be sent to, and
\* send_json is called for clients of the copy only, whatever connect is
\* made meanwhile; and a client enters websocket_clients only in connect.
C19_RecipientsFixedInBroadcast ==
    [][ /\ \A l \in Loops :
             /\ pc[l] # "send" /\ pc'[l] = "send" => copy'[l] = websocket_clients
             /\ pc[l] = "send" =>
                    /\ copy'[l] = copy[l]
                    /\ todo'[l] \subseteq todo[l]
                    /\ Attempted(l)' \subseteq copy[l]
        /\ \A c \in Clients :
             c \in websocket_clients' \ websocket_clients =>
                 hpc[c] = "new" /\ hpc'[c] = "hello" ]_vars

\* a connect was made while a broadcast was sending: the new client is in
\* websocket_clients and not in the broadcast's copy
C19_Witness ==
    \E l \in Loops : \E c \in websocket_clients :
        /\ pc[l] = "send"
        /\ c \notin copy[l]
        /\ hpc[c] = "hello"

\* C20: when a loop task goes on from one send of its broadcast to the
\* next, no client that it has still to send to has already been
\* delivered a dict with a later timestamp by another loop task's
\* broadcast: a dict of a later cycle never reaches a client before the
\* send of a dict of an earlier cycle to that client has begun.
C20_CycleOrderPerSubscriber ==
    [][ \A l, k \in Loops : \A c \in Clients :
          ~ /\ pc[l] = "send"
            /\ Attempted(l)' # Attempted(l)
            /\ c \in todo'[l]
            /\ c \in delivered[k]
            /\ timestamp[k] > timestamp[l] ]_vars

\* C21: disconnect(id, websocket) is idempotent. For every WebSocket that
\* connect gave an id, a second disconnect leaves the registries as the first
\* left them and neither raises; and when the id is already absent from
\* active_connections, a disconnect changes neither registry.
C21_DisconnectIdempotent ==
    \A c \in Clients : connection_id[c] # 0 =>
        LET once  == disconnect(Registries, connection_id[c], c)
            twice == disconnect(once, connection_id[c], c)
        IN  /\ twice = once
            /\ ~twice.raised
            /\ connection_id[c] \notin Keys(active_connections) => once = Registries

\* a WebSocket was disconnected while another one is still registered
C21_Witness ==
    \E c, d \in Clients :
        /\ connection_id[c] # 0
        /\ connection_id[c] \notin Keys(active_connections)
        /\ hpc[c] = "closed"
        /\ connection_id[d] \in Keys(active_connections)
        /\ d \in websocket_clients

\* no element of a list appears twice in it
NoDuplicates(s) == \A i, j \in 1..Len(s) : s[i] = s[j] => i = j

\* the list without host, the other elements in their order
Without(s, host) == SelectSeq(s, LAMBDA x : x # host)

\* two elements of both lists are in the same order in both
SameOrder(s, t) ==
    \A i, j \in 1..Len(s) : \A k, n \in 1..Len(t) :
        s[i] = t[k] /\ s[j] = t[n] /\ i < j => k < n

\* in every state: no host is twice in target_hosts; add(host) gives a
\* list without duplicates that is the old list, with the host at its end
\* when it was absent and unchanged when it was present; remove(host)
\* gives the old list without the host, the others in their order, with
\* the cache without the host's entry when the host was present, and
\* leaves list and cache unchanged when the host is absent.
AddRemoveKeepSet ==
    /\ NoDuplicates(target_hosts)
    /\ \A host \in Hosts :
         LET added   == TargetsAdd(target_hosts, host)
             removed == TargetsRemove(target_hosts, latest_results, host)
         IN  /\ NoDuplicates(added)
             /\ InList(target_hosts, host) => added = target_hosts
             /\ ~InList(target_hosts, host) => added = Append(target_hosts, host)
             /\ removed.target_hosts = Without(target_hosts, host)
             /\ InList(target_hosts, host) =>
                    removed.latest_results = {kv \in latest_results : kv[1] # host}
             /\ ~InList(target_hosts, host) =>
                    /\ removed.target_hosts = target_hosts
                    /\ removed.latest_results = latest_results

\* in every step: the hosts that stay in target_hosts keep their order,
\* and a host that enters it enters at the end
InsertionOrderKept ==
    /\ SameOrder(target_hosts, target_hosts')
    /\ \A i \in 1..Len(target_hosts') :
           ~InList(target_hosts, target_hosts'[i]) => i = Len(target_hosts')

\* C22: after any sequence of add(host) and remove(host) calls every host
\* is at most once in target_hosts and the hosts are in the order they were
\* inserted in; add(host) of a host that is present leaves the list
\* unchanged, and remove(host) of a host that is absent leaves the list and
\* the cache unchanged.
C22_AddRemoveKeepOrderedSet ==
    []AddRemoveKeepSet /\ [][InsertionOrderKept]_vars

\* a host was removed and added again behind the others, and a host of
\* the list has a cache entry while another host is absent
C22_Witness ==
    /\ target_hosts = <<"8.8.8.8", "google.com", "1.1.1.1">>
    /\ "google.com" \in Keys(latest_results)

\* the loop tasks that have completed a cycle and not begun the next
Completed == {l \in Loops : pc[l] = "sleep"}

\* the time of the broadcast_data of the latest of these cycles
LatestCompleted ==
    LatestUpTo([l \in Loops |-> IF l \in Completed THEN timestamp[l] ELSE 0],
               MaxLoops)

\* C23: when a cycle has completed, a pong that is sent in reply to a ping
\* carries the timestamp of the latest completed cycle.
C23_PongCarriesCycleTimestamp ==
    [][\A c \in Clients :
           /\ Completed # {}
           /\ reply'[c] # reply[c]
           /\ message'[c].type = "ping"
           /\ reply'[c].type = "pong"
           => reply'[c].timestamp = IsoFormat(LatestCompleted)]_vars

\* the aggregation window of a get_host_summary message, in minutes: its
\* minutes, otherwise its hours, otherwise 24 hours
WindowOf(m) ==
    IF m.minutes # NoNumber THEN m.minutes
    ELSE IF m.hours # NoNumber THEN m.hours * 60
    ELSE 24 * 60

\* the summaries the handler got from ping_crud for the last message of c
SummariesOf(c) ==
    {sends[c][i].summary :
         i \in {k \in 1..Len(sends[c]) : sends[c][k].type = "host_summary_response"}}

\* C24: for a get_host_summary message with a host, the aggregation is
\* requested for that host and its window is the message's minutes when it
\* has minutes (with or without hours), otherwise its hours, otherwise 24
\* hours; with no host the only reply is the error and no aggregation is
\* requested.
C24_SummaryWindow ==
    \A c \in Clients : message[c].type = "get_host_summary" =>
        IF Truthy(message[c].host)
        THEN /\ summary_call[c].host = message[c].host
             /\ get_host_summary(summary_call[c].host, summary_call[c].hours,
                                 summary_call[c].minutes,
                                 Table(FALSE, 1, 0)).since_time = WindowOf(message[c])
             /\ \A summary \in SummariesOf(c) :
                    /\ summary.since_time = WindowOf(message[c])
                    /\ summary.minutes_analyzed = WindowOf(message[c])
        ELSE /\ summary_call[c] = NoCall
             /\ SummariesOf(c) = {}
             /\ sends[c][1] = Error("Host parameter required for summary")

\* a summary was computed for a message with hours and minutes, one for a
\* message with hours only and one for a message with neither, and a
\* message without a host was answered
C24_Witness ==
    /\ message[1].type = "get_host_summary"
    /\ message[1].hours = 2
    /\ message[1].minutes = 90
    /\ \E summary \in SummariesOf(1) : summary.since_time = 90

\* C25: a summary over N > 0 rows of which L have packet_loss TRUE has
\* uptime_percentage 100 * (N - L) / N.
C25_UptimePercentage ==
    \A c \in Clients : \A summary \in SummariesOf(c) :
        summary.total_pings > 0 =>
            FloatEq(summary.uptime_percentage,
                    Float(100 * (summary.total_pings - summary.packet_losses),
                          summary.total_pings))

\* a step in which the endpoint of c received a message: what it keeps of
\* its last message, of the sends for it and of its reply has changed
Received(c) ==
    <<message[c], sends[c], reply[c], summary_call[c]>>'
        # <<message[c], sends[c], reply[c], summary_call[c]>>

\* the step changes neither registry and leaves the endpoint of c in its
\* loop, where it awaits the next message
StaysSubscribed(c) ==
    /\ UNCHANGED <<active_connections, websocket_clients>>
    /\ connection_id[c] \in Keys(active_connections')
    /\ hpc'[c] = "recv"

\* C26: for a message that cannot be decoded the only message the endpoint
\* sends is the error "Invalid JSON format"; when that send returns, the
\* registries are unchanged and the endpoint awaits the next message.
C26_UndecodableIsAnswered ==
    [][\A c \in Clients :
           Received(c) /\ message'[c].type = "undecodable" =>
               /\ sends'[c] = <<Error("Invalid JSON format")>>
               /\ reply'[c] # NoReply =>
                      /\ reply'[c] = Error("Invalid JSON format")
                      /\ StaysSubscribed(c)]_vars

\* an undecodable message was answered and the endpoint is in its loop
C26_Witness ==
    /\ message[2].type = "undecodable"
    /\ reply[2] = Error("Invalid JSON format")
    /\ hpc[2] = "recv"
    /\ 2 \in websocket_clients

\* the decoded messages: JSON objects, with any type or none
Decoded(m) == m.type \notin {"<nothing>", "disconnect", "undecodable", "non_object"}

\* the first message handle_websocket_message sends for m is an error
\* where the claim says so: for a type without a branch, one that names
\* the type, and for a command whose call of ping_crud failed, its error
ErrorWhereDue(c) ==
    LET m == message'[c]
        first == sends'[c][1]
    IN  /\ m.type \in {"unknown", None} =>
               first = Error("Unknown message type: " \o m.type)
        /\ m.type = "get_latest_metrics" /\ first.type # "latest_metrics_response" =>
               first = Error("Failed to get latest metrics")
        /\ m.type = "get_host_summary" /\ Truthy(m.host)
               /\ first.type # "host_summary_response" =>
               first = Error("Failed to get host summary")

\* C27: for every decoded message, of a known type, of a type without a
\* branch, without a type, or with a failing call of ping_crud, the
\* endpoint sends its messages one after the other only until a send
\* returns, so that one reply is sent; the reply is the error where one is
\* due; and when a send returned, the registries are unchanged and the
\* endpoint awaits the next message.
C27_CommandsKeepTheChannel ==
    [][\A c \in Clients :
           Received(c) /\ Decoded(message'[c]) =>
               /\ sends'[c] # <<>>
               /\ ErrorWhereDue(c)
               /\ reply'[c] # NoReply =>
                      /\ reply'[c] = sends'[c][Len(sends'[c])]
                      /\ StaysSubscribed(c)]_vars

\* a command whose call of ping_crud failed was answered with its error,
\* and the endpoint is in its loop
C27_Witness ==
    /\ message[2].type = "get_host_summary"
    /\ reply[2] = Error("Failed to get host summary")
    /\ Len(sends[2]) = 1
    /\ hpc[2] = "recv"
    /\ 2 \in websocket_clients

\* the topic of a subscriber: the path its broadcasts are chosen by
TopicPath(c) == client_path(c)

\* what a step leaves unchanged when it touches nothing but the record of
\* the inbound messages: the registries, the topic of c, and everything a
\* broadcast reads or writes
LeavesBroadcastsAlone(c) ==
    /\ UNCHANGED <<monitor, manager, loopvars, has_path, hpc, connection_id>>
    /\ TopicPath(c)' = TopicPath(c)

\* C28 as stated: every subscribe_host command is answered with the
\* acknowledgment only, and changes nothing else.
C28_SubscribeIsAcknowledged ==
    [][\A c \in Clients :
           Received(c) /\ message'[c].type = "subscribe_host" =>
               /\ sends'[c][1].type = "subscription_confirmed"
               /\ reply'[c] # NoReply => LeavesBroadcastsAlone(c)]_vars

\* C28, amended: a subscribe_host command that names a host is answered
\* with the acknowledgment for that host, one without a host with the
\* error "Host parameter required for subscription"; when a send of the
\* step returns, the step changes neither registry, nor the subscriber's
\* topic, nor anything a broadcast reads or writes.
C28_SubscribeChangesNothing ==
    [][\A c \in Clients :
           Received(c) /\ message'[c].type = "subscribe_host" =>
               /\ sends'[c][1] =
                      IF Truthy(message'[c].host)
                      THEN [type |-> "subscription_confirmed", host |-> message'[c].host]
                      ELSE Error("Host parameter required for subscription")
               /\ reply'[c] # NoReply => LeavesBroadcastsAlone(c)]_vars

\* a subscribe_host for a host was acknowledged to a subscriber that a
\* broadcast goes on to send to
C28_Witness ==
    /\ message[2] = Frame("subscribe_host", "8.8.8.8", NoNumber, NoNumber)
    /\ reply[2].type = "subscription_confirmed"
    /\ \E l \in Loops : 2 \in delivered[l]

\* C29: when db_manager.connect() fails in the startup, the lifespan ends
\* with the error and start_monitoring() has not been called: the monitor
\* is stopped and no loop task exists.
C29_FailedStartupStartsNothing ==
    lifespan_pc = "raised" =>
        /\ ~is_running
        /\ \A l \in Loops : pc[l] = "none"
        /\ lastOp \notin {"start", "start_warn"}

\* the startup failed
C29_Witness ==
    /\ lifespan_pc = "raised"
    /\ lastOp = "step"

\* the loop tasks whose cycle has built its broadcast_data
Built == {l \in Loops : pc[l] \in {"send", "sleep"}}

\* C30: the measurements of a cycle all carry the same timestamp, and it is
\* the timestamp of the broadcast_data of the cycle.
C30_OneTimestampPerCycle ==
    \A l \in Built : \A i \in 1..Len(measured[l]) :
        /\ \A j \in 1..Len(measured[l]) : measured[l][i] = measured[l][j]
        /\ measured[l][i] = EnvelopeReading(l)

\* the channels registered in WebSocketManager.active_connections
Channels == {kv[2] : kv \in active_connections}

\* C31: connect and disconnect each run without suspending between their
\* two registrations, so none is in progress in any state: the channels of
\* active_connections are always those of websocket_clients, the two
\* counts that get_websocket_connections reports agree, and a subscriber
\* that a broadcast dropped after a failed send is in neither registry.
C31_OneRegistryState ==
    /\ Channels = websocket_clients
    /\ Cardinality(active_connections) = Cardinality(websocket_clients)
    /\ \A c \in Clients : Dropped(c) => c \notin Channels

\* a step in which the endpoint of c handled a decoded message leaves the
\* target registry, the result cache and the monitor's state as they were;
\* when a send of the step returned, it leaves both subscriber registries
\* as they were; when none did, the endpoint ended and its finally took c,
\* and only c, out of them
CommandLeavesStateAlone(c) ==
    /\ UNCHANGED <<target_hosts, latest_results, is_running>>
    /\ IF reply'[c] # NoReply
       THEN UNCHANGED <<active_connections, websocket_clients>>
       ELSE /\ active_connections' = DictDel(active_connections, connection_id[c])
            /\ websocket_clients' = websocket_clients \ {c}

\* the step answered a get_status of c with its status_response
StatusReplied(c) ==
    /\ Received(c)
    /\ message'[c].type = "get_status"
    /\ reply'[c].type = "status_response"

C33_CachedWasInserted ==
    [][\A kv \in latest_results' \ latest_results :
           \E l \in Loops :
               /\ pc[l] = "insert"
               /\ kv = <<results[l][idx[l]].host, results[l][idx[l]]>>
               /\ saved'[l] = Append(saved[l], kv[1])]_vars

\* a cycle is over in which the first insert returned and the second
\* raised: the cache holds the first result and nothing for the second host
C33_Witness ==
    \E l \in Loops :
        /\ pc[l] = "sleep"
        /\ Len(results[l]) >= 2
        /\ saved[l] = <<results[l][1].host>>
        /\ <<results[l][1].host, results[l][1]>> \in latest_results
        /\ results[l][2].host \notin Keys(latest_results)

\* the endpoint handler of c has ended after connect had given it an id
Terminated(c) == hpc[c] = "closed" /\ connection_id[c] # 0

\* C34: when the handler of a channel has ended after its connect
\* returned, whatever ended it, the channel and its id are in neither
\* registry. The handler's finally runs disconnect, which awaits nothing,
\* in the step that ends the handler, and a handler that has ended stays
\* so: the subscriber is absent at once and for good.
C34_TerminatedIsUnregistered ==
    \A c \in Clients :
        Terminated(c) =>
            /\ c \notin Channels
            /\ connection_id[c] \notin Keys(active_connections)
            /\ c \notin websocket_clients

\* the handler of one channel ended when the sends of its reply raised,
\* that of another channel when the send of its setup raised after a
\* broadcast had dropped it
C34_Witness ==
    \E c, d \in Clients :
        /\ Terminated(c)
        /\ message[c].type = "ping"
        /\ sends[c] # <<>>
        /\ reply[c] = NoReply
        /\ Terminated(d)
        /\ message[d] = NoMessage
        /\ \E l \in Loops : d \in clients_to_remove[l]

\* the handler of c is in its setup: it awaits the send of its
\* connection_established, or that of its initial_data or hosts_update
InSetup(c) == hpc[c] \in {"hello", "initial"}

\* C35: while the handler of a channel is in its setup, no broadcast has
\* delivered its dict to the channel, so that connection_established, and
\* the initial_data or hosts_update after it, reach a subscriber before
\* any broadcast does.
C35_SetupComesFirst ==
    \A c \in Clients : \A l \in Loops : InSetup(c) => c \notin delivered[l]

\* C36: the ids that connect has given out, to channels that are
\* registered and to channels that were disconnected since, are pairwise
\* different; each is one of the numbers the counter has passed, and a
\* registered id is registered for the channel it was given to.
C36_ConnectionIdsAreUnique ==
    \A c \in Clients :
        connection_id[c] # 0 =>
            /\ connection_id[c] \in 1..connection_counter
            /\ \A d \in Clients \ {c} : connection_id[d] # connection_id[c]
            /\ \A kv \in active_connections : kv[1] = connection_id[c] => kv[2] = c

\* a channel was accepted and disconnected, and another channel is
\* registered alone under a later id
C36_Witness ==
    \E c, d \in Clients :
        /\ hpc[c] = "closed"
        /\ connection_id[c] = 1
        /\ connection_id[d] = 2
        /\ active_connections = {<<2, d>>}
        /\ connection_counter = 2

\* the connections of disconnected_connections
Failed == {disconnected_connections[i] : i \in 1..Len(disconnected_connections)}

\* C37: a call of WebSocketManager.broadcast does not end in an error,
\* whatever connects and disconnects while it awaits its sends; when it
\* has returned, send_json was awaited for every connection that was
\* registered when it was called, and the connections whose send raised
\* are in neither registry; and the step in which it returns removes these
\* connections and no other.
C37_ManagerBroadcastIsRobust ==
    /\ [](bpc # "raised")
    /\ [](bpc = "returned" =>
              /\ Keys(registered) \subseteq sent_to
              /\ \A kv \in Failed :
                     /\ kv[1] \notin Keys(active_connections)
                     /\ kv[2] \notin websocket_clients)
    /\ [][bpc = "send" /\ bpc' = "returned" =>
              /\ active_connections' = active_connections \ Failed'
              /\ websocket_clients' = websocket_clients \ {kv[2] : kv \in Failed'}]_vars

====
